---------------------------- MODULE Spec2Model ----------------------------
(***************************************************************************)
(* Model of the SCM Commit Message Tool (src/src/extension.ts).            *)
(*                                                                         *)
(* The extension registers two language-model tools.  Each invocation is   *)
(* an async function running on the single-threaded extension host:        *)
(* synchronous code runs to completion, and other invocations or host      *)
(* events are served only while an invocation is suspended at an `await`.  *)
(*                                                                         *)
(* Strings are sequences of one-character strings.  The fixed texts of the *)
(* result descriptions are kept as single sequence elements.               *)
(***************************************************************************)
EXTENDS Naturals, Sequences, FiniteSets

(* ------------------------------ bounds -------------------------------- *)

\* Number of tool invocations in a behaviour.
NCalls == 2

\* Largest number of repositories the Git API enumerates (a behaviour has
\* none, one, or this many).
MaxRepos == 2

\* Number of edits the user makes to an input box in a behaviour.
MaxEdits == 1

(* ------------------------------ inputs -------------------------------- *)

Calls == 1..NCalls

NoCall == 0

\* `message` values of options.input: empty, plain, whitespace-only, and
\* text with leading and trailing whitespace.
Messages == { <<>>, <<"a">>, <<" ">>, <<" ", "b", "\n">> }

\* `mode` values of options.input.  "undefined" is the omitted property;
\* "squash" is a value outside the enum of the input schema.
Modes == { "append", "prepend", "replace", "undefined", "squash" }

\* The inputs of invocations that are dispatched while others are in flight.
ConcurrentMessages == { <<"a">>, <<" ", "b", "\n">> }

ConcurrentModes == { "undefined", "replace" }

\* Values the user leaves in the input box: cleared (also by a commit),
\* blank, and text followed by a no-break space.
EditValues == { <<>>, <<" ">>, <<"c", "U+00A0">> }

(* ------------------------------ strings ------------------------------- *)

\* The code units String.prototype.trim removes (WhiteSpace and
\* LineTerminator of ECMAScript).  A character without an escape here is the
\* one-element string "U+XXXX" of its code unit.
WhiteSpace ==
    { "\t", "\n", "U+000B", "\f", "\r", " ", "U+00A0", "U+1680",
      "U+2000", "U+2001", "U+2002", "U+2003", "U+2004", "U+2005", "U+2006",
      "U+2007", "U+2008", "U+2009", "U+200A", "U+2028", "U+2029", "U+202F",
      "U+205F", "U+3000", "U+FEFF" }

RECURSIVE TrimStart(_)
TrimStart(s) ==
    IF s = <<>> \/ Head(s) \notin WhiteSpace THEN s ELSE TrimStart(Tail(s))

RECURSIVE TrimEnd(_)
TrimEnd(s) ==
    IF s = <<>> \/ s[Len(s)] \notin WhiteSpace
    THEN s
    ELSE TrimEnd(SubSeq(s, 1, Len(s) - 1))

\* Trim without the call of trim().
Trim_None(s) == s

\* String.prototype.trim (line 188).
Trim(s) == TrimEnd(TrimStart(s))

\* The separator "\n\n" of the template literals (lines 209, 217).
BlankLine == << "\n", "\n" >>

(* ------------------------------- state -------------------------------- *)

VARIABLES
    extPresent,     \* vscode.extensions.getExtension("vscode.git") is defined
    isActive,       \* gitExtension.isActive
    apiAvailable,   \* gitExtension.exports.getAPI(1) returns (does not throw)
    repositories,   \* git.repositories: the inputBox.value of each, in order
    calls,          \* the invocations: position, input, token, locals
    running,        \* the invocation executing synchronous code, or NoCall
    returned,       \* the latest settled invocation and what it returned
    edits,          \* number of edits the user has made
    lastWrite,      \* history: the latest assignment to the first input box
    lastRead        \* history: the getCommitMessage answers since lastWrite

vars == << extPresent, isActive, apiAvailable,
           repositories, calls, running, returned,
           edits, lastWrite, lastRead >>

NoError == "none"

\* The Error thrown at lines 36-38.
IntegrationUnavailable == "IntegrationUnavailable"

\* The Error thrown at lines 49-52.
NoRepositoryOpen == "NoRepositoryOpen"

\* The host's rejection of gitExtension.activate(), rethrown by the await of
\* line 43.
ActivationFailed == "ActivationFailed"

\* The host's throw of exports.getAPI(1) at line 46 (Git disabled).
ApiUnavailable == "ApiUnavailable"

\* An invocation that has not been dispatched.
IdleCall ==
    [ pc           |-> "idle",
      kind         |-> "none",
      message      |-> <<>>,
      mode         |-> "undefined",
      cancelled    |-> FALSE,
      activated    |-> FALSE,
      error        |-> NoError,
      repo         |-> 0,
      currentValue |-> <<>> ]

\* An invocation whose promise has settled: its locals are gone.
DoneCall == [ IdleCall EXCEPT !.pc = "done" ]

NoResult ==
    [ call |-> NoCall, kind |-> "none", error |-> NoError, text |-> <<>>,
      cancelled |-> FALSE ]

NoWrite == [ by |-> "none", message |-> <<>>, mode |-> "undefined", before |-> <<>> ]

NoRead == [ count |-> 0, text |-> <<>> ]

Init ==
    /\ extPresent \in BOOLEAN
    /\ isActive \in (IF extPresent THEN BOOLEAN ELSE {FALSE})
    /\ apiAvailable \in (IF extPresent THEN BOOLEAN ELSE {FALSE})
    /\ \E n \in { 0, 1, MaxRepos } : repositories = [ i \in 1..n |-> <<>> ]
    /\ calls = [ c \in Calls |-> IdleCall ]
    /\ running = NoCall
    /\ returned = NoResult
    /\ edits = 0
    /\ lastWrite = NoWrite
    /\ lastRead = NoRead

(* ------------------------- getGitRepository --------------------------- *)

\* EnumerateRepositories throwing the other error for an empty list.
EnumerateRepositories_WrongError ==
    IF ~apiAvailable
    THEN [ error |-> ApiUnavailable, repo |-> 0 ]
    ELSE IF Len(repositories) = 0
    THEN [ error |-> IntegrationUnavailable, repo |-> 0 ]
    ELSE [ error |-> NoError, repo |-> 1 ]

\* Lines 46-56, the part of getGitRepository after the extension is active:
\* the throw of getAPI(1) when the host has no Git API, an error when
\* git.repositories is empty, otherwise git.repositories[0] (position 1 of
\* the sequence).
EnumerateRepositories ==
    IF ~apiAvailable
    THEN [ error |-> ApiUnavailable, repo |-> 0 ]
    ELSE IF Len(repositories) = 0
    THEN [ error |-> NoRepositoryOpen, repo |-> 0 ]
    ELSE [ error |-> NoError, repo |-> 1 ]

\* Lines 30-44 and, when nothing suspends, 46-56: the synchronous start of
\* getGitRepository.  `pc` is where the invocation is suspended afterwards.
StartLocator ==
    IF ~extPresent
    THEN [ pc |-> "awaitLocator", activated |-> FALSE,
           error |-> IntegrationUnavailable, repo |-> 0 ]
    ELSE IF ~isActive
    THEN [ pc |-> "awaitActivate", activated |-> TRUE,
           error |-> NoError, repo |-> 0 ]
    ELSE [ pc |-> "awaitLocator", activated |-> FALSE,
           error |-> EnumerateRepositories.error,
           repo |-> EnumerateRepositories.repo ]

(* --------------------------- merge policy ----------------------------- *)

\* Line 183: `mode = "append"` applies when the property is undefined.
ModeOrDefault(mode) == IF mode = "undefined" THEN "append" ELSE mode

\* UpdatedValue with a prepend branch that forgets currentValue.
UpdatedValue_PrependDrops(currentValue, message, mode) ==
    IF currentValue = <<>>
    THEN message
    ELSE CASE ModeOrDefault(mode) = "replace" -> message
           [] ModeOrDefault(mode) = "prepend" -> message
           [] OTHER -> currentValue \o BlankLine \o message

\* UpdatedValue that trims the incoming message.
UpdatedValue_TrimsMessage(currentValue, message, mode) ==
    IF currentValue = <<>>
    THEN Trim(message)
    ELSE CASE ModeOrDefault(mode) = "replace" -> Trim(message)
           [] ModeOrDefault(mode) = "prepend" -> Trim(message) \o BlankLine \o currentValue
           [] OTHER -> currentValue \o BlankLine \o Trim(message)

\* UpdatedValue whose default branch puts the message first.
UpdatedValue_AppendBefore(currentValue, message, mode) ==
    IF currentValue = <<>>
    THEN message
    ELSE CASE ModeOrDefault(mode) = "replace" -> message
           [] ModeOrDefault(mode) = "prepend" -> message \o BlankLine \o currentValue
           [] OTHER -> message \o BlankLine \o currentValue

\* UpdatedValue without the "replace" case: replace falls to the default.
UpdatedValue_NoReplaceCase(currentValue, message, mode) ==
    IF currentValue = <<>>
    THEN message
    ELSE CASE ModeOrDefault(mode) = "prepend" -> message \o BlankLine \o currentValue
           [] OTHER -> currentValue \o BlankLine \o message

\* Lines 196-223: the value assigned to updatedValue.
UpdatedValue(currentValue, message, mode) ==
    IF currentValue = <<>>
    THEN message
    ELSE CASE ModeOrDefault(mode) = "replace" -> message
           [] ModeOrDefault(mode) = "prepend" -> message \o BlankLine \o currentValue
           [] OTHER -> currentValue \o BlankLine \o message

\* Lines 196-223: the text assigned to resultDescription.
ResultDescription(currentValue, message, mode) ==
    IF currentValue = <<>>
    THEN << "Commit message set to:\n" >> \o message
    ELSE CASE ModeOrDefault(mode) = "replace" ->
                << "Commit message replaced. New message:\n" >> \o message
           [] ModeOrDefault(mode) = "prepend" ->
                << "New text prepended before existing message.\n", "Full message:\n" >>
                    \o UpdatedValue(currentValue, message, mode)
           [] OTHER ->
                << "New text appended after existing message.\n", "Full message:\n" >>
                    \o UpdatedValue(currentValue, message, mode)

(* ------------------------------ actions ------------------------------- *)

\* Invocations are numbered in the order in which the host dispatches them.
NextToDispatch(c) ==
    /\ calls[c].pc = "idle"
    /\ \A d \in Calls : d < c => calls[d].pc # "idle"

\* No invocation is suspended or executing.
NoneInFlight == \A d \in Calls : calls[d].pc \in { "idle", "done" }

\* invoke() up to its first suspension (lines 96 / 183-185 and the start of
\* getGitRepository).
Invoke(c, kind, message, mode) ==
    /\ running = NoCall
    /\ NextToDispatch(c)
    /\ calls' = [ calls EXCEPT ![c] =
                    [ @ EXCEPT !.pc = StartLocator.pc,
                               !.kind = kind,
                               !.message = message,
                               !.mode = mode,
                               !.activated = StartLocator.activated,
                               !.error = StartLocator.error,
                               !.repo = StartLocator.repo ] ]
    /\ UNCHANGED << extPresent, apiAvailable, isActive,
                    repositories, running, returned,
                    edits, lastWrite, lastRead >>

\* GetCommitMessageTool.invoke is called (input: none).
InvokeGet(c) == Invoke(c, "get", <<>>, "undefined")

\* UpdateCommitMessageTool.invoke is called with { message, mode }.
InvokeUpdate(c, message, mode) == Invoke(c, "update", message, mode)

\* The host finishes the activation some invocation asked for (line 43).
ActivationCompletes ==
    /\ running = NoCall
    /\ ~isActive
    /\ \E c \in Calls : calls[c].pc = "awaitActivate"
    /\ isActive' = TRUE
    /\ UNCHANGED << extPresent, apiAvailable,
                    repositories, calls, running, returned,
                    edits, lastWrite, lastRead >>

\* The promise of gitExtension.activate() that invocation c awaits is
\* rejected, and the await of line 43 rethrows: getGitRepository ends with
\* the host's error.  What the host reports of the extension afterwards is
\* its own affair: it is left as it was (a later activate() may succeed or
\* be rejected), or it is reported active without usable exports.
ActivateRejects(c) ==
    /\ running = NoCall
    /\ calls[c].pc = "awaitActivate"
    /\ calls' = [ calls EXCEPT ![c] =
                    [ @ EXCEPT !.pc = "awaitLocator",
                               !.error = ActivationFailed,
                               !.repo = 0 ] ]
    /\ \/ UNCHANGED << isActive, apiAvailable >>
       \/ /\ ~isActive
          /\ isActive' = TRUE
          /\ apiAvailable' = FALSE
    /\ UNCHANGED << extPresent, repositories, running, returned,
                    edits, lastWrite, lastRead >>

\* Lines 43-56: getGitRepository resumes after `await gitExtension.activate()`
\* has been fulfilled, and lines 46-56 run.
ActivateResume(c) ==
    /\ running = NoCall
    /\ calls[c].pc = "awaitActivate"
    /\ isActive
    /\ calls' = [ calls EXCEPT ![c] =
                    [ @ EXCEPT !.pc = "awaitLocator",
                               !.error = EnumerateRepositories.error,
                               !.repo = EnumerateRepositories.repo ] ]
    /\ UNCHANGED << extPresent, apiAvailable, isActive,
                    repositories, running, returned,
                    edits, lastWrite, lastRead >>

\* The host raises the cancellation token of a suspended invocation.
Cancel(c) ==
    /\ running = NoCall
    /\ calls[c].pc \in { "awaitActivate", "awaitLocator" }
    /\ ~calls[c].cancelled
    /\ calls' = [ calls EXCEPT ![c].cancelled = TRUE ]
    /\ UNCHANGED << extPresent, apiAvailable, isActive,
                    repositories, running, returned,
                    edits, lastWrite, lastRead >>

\* The user edits the input box the tools address, that of the first
\* repository (or a commit clears it).  The host delivers the change as an
\* event, between the synchronous runs of the extension's code.
HostEdit(v) ==
    /\ running = NoCall
    /\ edits < MaxEdits
    /\ Len(repositories) > 0
    /\ repositories[1] # v
    /\ edits' = edits + 1
    /\ repositories' = [ repositories EXCEPT ![1] = v ]
    /\ lastWrite' = [ by |-> "host", message |-> v, mode |-> "undefined",
                      before |-> repositories[1] ]
    /\ lastRead' = NoRead
    /\ UNCHANGED << extPresent, apiAvailable, isActive,
                    calls, running, returned >>

\* The rejection of the promise of invocation c (the throw of the locator,
\* which invoke() does not catch).
Rejected(c) ==
    [ call |-> c, kind |-> calls[c].kind, error |-> calls[c].error,
      text |-> <<>>, cancelled |-> calls[c].cancelled ]

\* The fulfilment of the promise of invocation c with a text part.
Fulfilled(c, text) ==
    [ call |-> c, kind |-> calls[c].kind, error |-> NoError,
      text |-> text, cancelled |-> calls[c].cancelled ]

\* ReadValue that trims, as the update tool does.
ReadValue_Trimmed(c) == Trim(repositories[calls[c].repo])

\* Line 99: the value GetCommitMessageTool returns.
ReadValue(c) == repositories[calls[c].repo]

\* Lines 96-103: GetCommitMessageTool.invoke resumes after the locator.
GetResume(c) ==
    /\ running = NoCall
    /\ calls[c].pc = "awaitLocator"
    /\ calls[c].kind = "get"
    /\ calls' = [ calls EXCEPT ![c] = DoneCall ]
    /\ IF calls[c].error # NoError
       THEN /\ returned' = Rejected(c)
            /\ UNCHANGED lastRead
       ELSE /\ returned' = Fulfilled(c, ReadValue(c))
            /\ lastRead' = IF calls[c].repo = 1
                           THEN [ count |-> lastRead.count + 1, text |-> ReadValue(c) ]
                           ELSE lastRead
    /\ UNCHANGED << extPresent, apiAvailable, isActive,
                    repositories, running, edits, lastWrite >>

\* UpdateRead followed by an await: the thread is released after the read.
UpdateRead_ThenAwait(c) ==
    /\ running = NoCall
    /\ calls[c].pc = "awaitLocator"
    /\ calls[c].kind = "update"
    /\ IF calls[c].error # NoError
       THEN /\ calls' = [ calls EXCEPT ![c] = DoneCall ]
            /\ returned' = Rejected(c)
       ELSE /\ calls' = [ calls EXCEPT ![c] =
                            [ @ EXCEPT !.pc = "merge",
                                       !.currentValue = Trim(repositories[calls[c].repo]) ] ]
            /\ UNCHANGED returned
    /\ UNCHANGED << extPresent, apiAvailable, isActive,
                    repositories, running, edits, lastWrite, lastRead >>

\* Lines 185-188: UpdateCommitMessageTool.invoke resumes after the locator
\* and reads the trimmed input box value; no await follows, so it keeps the
\* thread until it returns.
UpdateRead(c) ==
    /\ running = NoCall
    /\ calls[c].pc = "awaitLocator"
    /\ calls[c].kind = "update"
    /\ IF calls[c].error # NoError
       THEN /\ calls' = [ calls EXCEPT ![c] = DoneCall ]
            /\ returned' = Rejected(c)
            /\ UNCHANGED running
       ELSE /\ calls' = [ calls EXCEPT ![c] =
                            [ @ EXCEPT !.pc = "merge",
                                       !.currentValue = Trim(repositories[calls[c].repo]) ] ]
            /\ running' = c
            /\ UNCHANGED returned
    /\ UNCHANGED << extPresent, apiAvailable, isActive,
                    repositories, edits, lastWrite, lastRead >>

\* UpdateWrite that consults the token and returns without assigning.
UpdateWrite_HonoursToken(c) ==
    /\ running \in { c, NoCall }
    /\ calls[c].pc = "merge"
    /\ LET cv == calls[c].currentValue
           m  == calls[c].message
           md == calls[c].mode
       IN IF calls[c].cancelled
          THEN /\ returned' = Fulfilled(c, << "Cancelled." >>)
               /\ UNCHANGED << repositories, lastWrite, lastRead >>
          ELSE /\ repositories' = [ repositories EXCEPT
                                      ![calls[c].repo] = UpdatedValue(cv, m, md) ]
               /\ returned' = Fulfilled(c, ResultDescription(cv, m, md))
               /\ lastWrite' = [ by |-> "update", message |-> m, mode |-> md,
                                 before |-> repositories[1] ]
               /\ lastRead' = NoRead
    /\ calls' = [ calls EXCEPT ![c] = DoneCall ]
    /\ running' = NoCall
    /\ UNCHANGED << extPresent, apiAvailable, isActive,
                    edits >>

\* Lines 196-229: merge, assign repo.inputBox.value, return the description.
\* The cancellation token (_token) is not read.  The code runs when the
\* thread is this invocation's (it is, since the read) or free.
UpdateWrite(c) ==
    /\ running \in { c, NoCall }
    /\ calls[c].pc = "merge"
    /\ LET cv == calls[c].currentValue
           m  == calls[c].message
           md == calls[c].mode
       IN /\ repositories' = [ repositories EXCEPT
                                 ![calls[c].repo] = UpdatedValue(cv, m, md) ]
          /\ returned' = Fulfilled(c, ResultDescription(cv, m, md))
          /\ lastWrite' = IF calls[c].repo = 1
                          THEN [ by |-> "update", message |-> m, mode |-> md,
                                 before |-> repositories[1] ]
                          ELSE lastWrite
          /\ lastRead' = IF calls[c].repo = 1 THEN NoRead ELSE lastRead
    /\ calls' = [ calls EXCEPT ![c] = DoneCall ]
    /\ running' = NoCall
    /\ UNCHANGED << extPresent, apiAvailable, isActive,
                    edits >>

\* What the host and the suspended invocations do, however calls arrive.
Progress ==
    \/ ActivationCompletes
    \/ \E c \in Calls : ActivateRejects(c)
    \/ \E c \in Calls : ActivateResume(c)
    \/ \E c \in Calls : Cancel(c)
    \/ \E v \in EditValues : HostEdit(v)
    \/ \E c \in Calls : GetResume(c)
    \/ \E c \in Calls : UpdateRead(c)
    \/ \E c \in Calls : UpdateWrite(c)

\* Invocations dispatched at any time, also while others are suspended.
Next ==
    \/ \E c \in Calls : InvokeGet(c)
    \/ \E c \in Calls, message \in ConcurrentMessages, mode \in ConcurrentModes :
            InvokeUpdate(c, message, mode)
    \/ Progress

Spec == Init /\ [][Next]_vars

\* The agent issues one tool call at a time and awaits its result.
NextSequential ==
    \/ \E c \in Calls : NoneInFlight /\ InvokeGet(c)
    \/ \E c \in Calls, message \in Messages, mode \in Modes :
            NoneInFlight /\ InvokeUpdate(c, message, mode)
    \/ Progress

SpecSequential == Init /\ [][NextSequential]_vars

(* ------------------------ vocabulary of the claims --------------------- *)

\* s consists of whitespace only (the empty string included).
IsBlank(s) == \A i \in 1..Len(s) : s[i] \in WhiteSpace

\* t occurs in s as a contiguous part.
Contains(s, t) ==
    \E i \in 0..Len(s) : i + Len(t) <= Len(s) /\ SubSeq(s, i + 1, i + Len(t)) = t

\* t is e without its leading and trailing whitespace.
IsTrimOf(t, e) ==
    /\ \E i \in 0..Len(e), j \in 0..Len(e) :
          /\ i + Len(t) + j = Len(e)
          /\ SubSeq(e, i + 1, i + Len(t)) = t
          /\ IsBlank(SubSeq(e, 1, i))
          /\ IsBlank(SubSeq(e, Len(e) - j + 1, Len(e)))
    /\ t # <<>> => t[1] \notin WhiteSpace /\ t[Len(t)] \notin WhiteSpace

Parts(e) == { SubSeq(e, i, j) : i \in 1..(Len(e) + 1), j \in 0..Len(e) }

TrimmedOf(e) == CHOOSE t \in Parts(e) : IsTrimOf(t, e)

\* The step in which update invocation c assigns the input box and returns.
UpdateWrites(c) == calls[c].pc = "merge" /\ calls'[c].pc = "done"

\* The step in which invocation c settles (its promise resolves or rejects).
Settles(c) == calls[c].pc # "done" /\ calls'[c].pc = "done"

\* The step in which getCommitMessage invocation c settles.
GetSettles(c) == calls[c].kind = "get" /\ Settles(c)

\* The mode is the default: omitted, or "append" given.
IsDefaultMode(mode) == mode \in { "undefined", "append" }

\* The merged value the specification prescribes for existing value e.
Prescribed(e, message, mode) ==
    IF IsBlank(e)
    THEN message
    ELSE IF mode = "replace"
    THEN message
    ELSE IF mode = "prepend"
    THEN message \o << "\n", "\n" >> \o TrimmedOf(e)
    ELSE TrimmedOf(e) \o << "\n", "\n" >> \o message

(* ------------------------------- claims ------------------------------- *)

\* C1, as stated: an update in mode append, prepend or omitted on a field
\* that is not empty writes a value that contains the field's previous value.
C1_PreviousValueKept ==
    [][ \A c \in Calls :
          ( /\ UpdateWrites(c)
            /\ calls[c].mode \in { "append", "prepend", "undefined" }
            /\ repositories[1] # <<>> )
          => Contains(repositories'[1], repositories[1]) ]_vars

\* C1, amended: an update in mode append, prepend or omitted on a field that
\* is not blank writes a value that contains the field's previous value
\* without its leading and trailing whitespace.
C1_TrimmedValueKept ==
    [][ \A c \in Calls :
          ( /\ UpdateWrites(c)
            /\ calls[c].mode \in { "append", "prepend", "undefined" }
            /\ ~IsBlank(repositories[1]) )
          => Contains(repositories'[1], TrimmedOf(repositories[1])) ]_vars

\* C1 witness: a prepend has been written over a value with surrounding
\* whitespace, and the trimmed value is part of the field.
C1_Witness ==
    /\ lastWrite.by = "update"
    /\ lastWrite.mode = "prepend"
    /\ ~IsBlank(lastWrite.before)
    /\ TrimmedOf(lastWrite.before) # lastWrite.before
    /\ Contains(repositories[1], TrimmedOf(lastWrite.before))
    /\ ~Contains(repositories[1], lastWrite.before)

\* C2: on a field E that is not blank, with T the trimmed E, an update leaves
\* M \n\n T for prepend, M for replace, and T \n\n M for every other mode
\* (append, omitted, unrecognised); M is not trimmed.
C2_MergeOfNonEmpty ==
    [][ \A c \in Calls :
          ( UpdateWrites(c) /\ ~IsBlank(repositories[1]) )
          => LET T == TrimmedOf(repositories[1])
                 M == calls[c].message
             IN repositories'[1] =
                    CASE calls[c].mode = "prepend" -> M \o << "\n", "\n" >> \o T
                      [] calls[c].mode = "replace" -> M
                      [] OTHER -> T \o << "\n", "\n" >> \o M ]_vars

\* C2 witness: an update with an unrecognised mode and a message with
\* surrounding whitespace has been appended to a trimmed previous value.
C2_Witness ==
    /\ lastWrite.by = "update"
    /\ lastWrite.mode = "squash"
    /\ lastWrite.message = << " ", "b", "\n" >>
    /\ lastWrite.before = << " ", "b", "\n" >>
    /\ repositories[1] = << "b", "\n", "\n", " ", "b", "\n" >>

\* C3: on a blank field (empty or whitespace only) an update leaves exactly
\* the message, whatever the mode.
C3_BlankFieldSet ==
    [][ \A c \in Calls :
          ( UpdateWrites(c) /\ IsBlank(repositories[1]) )
          => repositories'[1] = calls[c].message ]_vars

\* C3 witness: a prepend on a whitespace-only field has left the message.
C3_Witness ==
    /\ lastWrite.by = "update"
    /\ lastWrite.mode = "prepend"
    /\ lastWrite.before = << " " >>
    /\ lastWrite.message = << " ", "b", "\n" >>
    /\ repositories[1] = << " ", "b", "\n" >>

\* C4, as stated: after update M1 on an empty field and update M2, both in
\* default mode with no write in between, the field is M1 \n\n M2.
C4_Accumulation ==
    [][ \A c \in Calls :
          ( /\ UpdateWrites(c)
            /\ IsDefaultMode(calls[c].mode)
            /\ lastWrite.by = "update"
            /\ IsDefaultMode(lastWrite.mode)
            /\ lastWrite.before = <<>> )
          => repositories'[1] =
                lastWrite.message \o << "\n", "\n" >> \o calls[c].message ]_vars

\* C4, amended: ... the field is T1 \n\n M2, T1 being M1 without leading and
\* trailing whitespace, and it is M2 when M1 is blank.
C4_AccumulationTrimmed ==
    [][ \A c \in Calls :
          ( /\ UpdateWrites(c)
            /\ IsDefaultMode(calls[c].mode)
            /\ lastWrite.by = "update"
            /\ IsDefaultMode(lastWrite.mode)
            /\ lastWrite.before = <<>> )
          => repositories'[1] =
                IF IsBlank(lastWrite.message)
                THEN calls[c].message
                ELSE TrimmedOf(lastWrite.message) \o << "\n", "\n" >> \o calls[c].message ]_vars

\* C4 witness: two default-mode updates on an empty field, the first with
\* surrounding whitespace, have accumulated.
C4_Witness ==
    /\ lastWrite.by = "update"
    /\ lastWrite.mode = "undefined"
    /\ lastWrite.before = << " ", "b", "\n" >>
    /\ lastWrite.message = << "a" >>
    /\ repositories[1] = << "b", "\n", "\n", "a" >>
    /\ \A c \in Calls : calls[c].pc = "done"
    /\ edits = 0

\* Invocation c meets an available integration: the extension is found, its
\* activation was not rejected, and it hands out its API, so that
\* git.repositories is enumerated.
Enumerates(c) ==
    extPresent /\ apiAvailable /\ calls[c].error # ActivationFailed

\* C5: with the integration available and enumerating no repository, every
\* call fails with NoRepositoryOpen, and the input boxes are neither read nor
\* written.
C5_NoRepositoryOpen ==
    /\ [][ \A c \in Calls :
             ( Settles(c) /\ Enumerates(c) /\ Len(repositories) = 0 )
             => /\ returned'.call = c
                /\ returned'.error = NoRepositoryOpen
                /\ returned'.text = <<>>
                /\ repositories' = repositories
                /\ lastWrite' = lastWrite
                /\ lastRead' = lastRead ]_vars
    /\ []( Len(repositories) = 0 => lastWrite = NoWrite /\ lastRead = NoRead )

\* C5 witness: a second call, an update, has failed with NoRepositoryOpen.
C5_Witness ==
    /\ extPresent
    /\ apiAvailable
    /\ Len(repositories) = 0
    /\ returned.call = 2
    /\ returned.kind = "update"
    /\ returned.error = NoRepositoryOpen

\* The step in which the locator of invocation c ends, with a repository or
\* an error.
LocatorEnds(c) ==
    calls[c].pc \in { "idle", "awaitActivate" } /\ calls'[c].pc = "awaitLocator"

\* When the locator calls activate(): only, and always, when the extension
\* is found and not active.
ActivatesWhenInactive ==
    \A c \in Calls :
        /\ ( calls'[c].activated /\ ~calls[c].activated )
              => ( extPresent /\ ~isActive )
        /\ ( calls[c].pc = "idle" /\ calls'[c].pc # "idle"
             /\ extPresent /\ ~isActive )
              => calls'[c].activated

\* C6: the locator fails with IntegrationUnavailable exactly when the
\* extension is not found (without calling activate()), with NoRepositoryOpen
\* exactly when it is available and enumerates nothing, and otherwise
\* yields the first repository; it calls activate() only when the extension
\* is found and not active.
C6_Locator ==
    /\ [][ \A c \in Calls :
             LocatorEnds(c)
             => /\ calls'[c].error = IntegrationUnavailable <=> ~extPresent
                /\ calls'[c].error = NoRepositoryOpen
                      <=> ( Enumerates(c)' /\ Len(repositories) = 0 )
                /\ calls'[c].error \notin { IntegrationUnavailable, NoRepositoryOpen }
                      => ( calls'[c].error = NoError /\ calls'[c].repo = 1 )
                /\ ~extPresent => ~calls'[c].activated ]_vars
    /\ [][ ActivatesWhenInactive ]_vars

\* C6 witness: with the extension found and active and two repositories
\* open, the locator of a call has ended with the error of getAPI(1) and
\* without a repository.
C6_Witness ==
    \E c \in Calls :
        /\ calls[c].pc = "awaitLocator"
        /\ extPresent
        /\ isActive
        /\ ~calls[c].activated
        /\ Len(repositories) = 2
        /\ calls[c].error = ApiUnavailable
        /\ calls[c].repo = 0

\* C7: a getCommitMessage call changes no input box, returns the value of
\* the first input box verbatim, and returns what the previous call returned
\* when nothing was written since.
C7_PureRead ==
    [][ \A c \in Calls :
          GetSettles(c)
          => /\ repositories' = repositories
             /\ lastWrite' = lastWrite
             /\ calls[c].error = NoError
                  => /\ returned'.error = NoError
                     /\ returned'.text = repositories[1]
                     /\ lastRead.count > 0 => returned'.text = lastRead.text ]_vars

\* C7 witness: two reads since the latest write have returned the same
\* whitespace-only value, untrimmed.
C7_Witness ==
    /\ lastRead.count = 2
    /\ returned.kind = "get"
    /\ returned.text = lastRead.text
    /\ returned.text = repositories[1]
    /\ returned.text = << " " >>

\* C8: a read that follows an update in replace mode, with no write in
\* between, returns exactly the message of that update.
C8_ReplaceRoundTrip ==
    [][ \A c \in Calls :
          ( /\ GetSettles(c)
            /\ lastWrite.by = "update"
            /\ lastWrite.mode = "replace" )
          => /\ returned'.error = NoError
             /\ returned'.text = lastWrite.message ]_vars

\* C8 witness: a read has returned the message, with its surrounding
\* whitespace, that a replace wrote over a non-empty field.
C8_Witness ==
    /\ returned.kind = "get"
    /\ returned.error = NoError
    /\ lastRead.count = 1
    /\ lastWrite.by = "update"
    /\ lastWrite.mode = "replace"
    /\ lastWrite.before = << "c", "U+00A0" >>
    /\ lastWrite.message = << " ", "b", "\n" >>
    /\ returned.text = << " ", "b", "\n" >>

\* C9: an update is suspended only before its read; between its read and its
\* write no other invocation takes a step, and the value it merges into is
\* the value the field holds when it writes.
C9_ReadWriteAtomic ==
    /\ []( \A c \in Calls : calls[c].pc = "merge" => running = c )
    /\ []( running = NoCall
             => \A c \in Calls :
                  calls[c].pc \in { "idle", "awaitActivate", "awaitLocator", "done" } )
    /\ [][ \A c \in Calls :
             calls[c].pc = "merge"
             => /\ \A d \in Calls \ {c} : calls'[d] = calls[d]
                /\ UpdateWrites(c)
                /\ calls[c].currentValue = TrimmedOf(repositories[1])
                /\ repositories'[1] =
                      Prescribed(repositories[1], calls[c].message, calls[c].mode) ]_vars

\* C9 witness: an update is between its read and its write while another
\* update, dispatched before the read, is suspended.
C9_Witness ==
    \E c, d \in Calls :
        /\ c # d
        /\ calls[c].pc = "merge"
        /\ calls[d].pc = "awaitLocator"
        /\ calls[d].kind = "update"
        /\ calls[d].error = NoError

\* C10, as stated: an update whose token was cancelled before its write
\* leaves the field as it was.
C10_CancelledDoesNotWrite ==
    [][ \A c \in Calls :
          ( UpdateWrites(c) /\ calls[c].cancelled )
          => repositories' = repositories ]_vars

\* C10, amended: the token is not consulted: an update whose locator
\* succeeded reads and then assigns the complete merged value, cancelled or
\* not; the field only ever changes to a complete merged value or by an edit
\* of the user.
C10_CancelIgnored ==
    /\ [][ \A c \in Calls :
             /\ ( /\ calls[c].kind = "update"
                  /\ calls[c].pc = "awaitLocator"
                  /\ calls[c].error = NoError
                  /\ calls'[c].pc # "awaitLocator" )
                   => calls'[c].pc = "merge"
             /\ UpdateWrites(c)
                   => /\ repositories' =
                            [ repositories EXCEPT ![1] =
                                Prescribed(repositories[1], calls[c].message,
                                           calls[c].mode) ]
                      /\ returned'.call = c
                      /\ returned'.error = NoError
                      /\ returned'.cancelled = calls[c].cancelled ]_vars
    /\ [][ repositories' # repositories
             => \/ \E c \in Calls : UpdateWrites(c)
                \/ ( edits' = edits + 1 /\ repositories'[1] \in EditValues ) ]_vars

\* C10 witness: an update whose token was cancelled has returned normally
\* and has changed the field.
C10_Witness ==
    /\ returned.kind = "update"
    /\ returned.cancelled
    /\ returned.error = NoError
    /\ lastWrite.by = "update"
    /\ repositories[1] # lastWrite.before

=============================================================================
